---- MODULE Spec2Model ----
(***************************************************************************)
(* The dependency-injection container of goinit (package di): Container,   *)
(* Register, RegisterFactory, Resolve, ResolveWithTag, resolveType,        *)
(* createInstance, resolveSlice, IsRegistered, Clear and Close, run by     *)
(* concurrent goroutines.  One step of the model is one access to the      *)
(* shared state of the container (an atomic load or store, one sync.Map    *)
(* call, one critical section of c.mu, one Lock or Unlock of a creation    *)
(* mutex); Go's sync.Map calls are linearizable, so the interleavings of   *)
(* these steps are the behaviours of the code.                             *)
(***************************************************************************)
EXTENDS Integers, Sequences, FiniteSets, TLC

\* ------------------------------------------------------------------ bounds
NumProcs == 2
MaxCalls == 4
MaxInst == 3
MaxMutex == 4
MaxItems == 2

Procs == 1..NumProcs

\* --------------------------------------------------------------- constants
Singleton == 0
Transient == 1

NoErr == "ok"
ErrClosed == "container is closed"
ErrCircular == "circular dependency detected"
ErrNotFound == "no registration found"
ErrAmbiguous == "multiple registrations"
ErrNotFunc == "constructor must be a function"
ErrArity == "constructor must return T or (T, error)"
ErrAssign == "constructor return type is not assignable"
ErrSecond == "second must be error"
ErrPrimitive == "parameter is primitive and not registered"
ErrProvide == "Provide is for interface types only"
\* the error a constructor returns as its second result
\* the error of the email or storage factory, and the run-time error of a
\* call on the nil *Container
ErrFactory == "failed to create service"
ErrNilContainer == "nil pointer dereference"
ErrCtor == "constructor failed"

\* objects carry their dynamic type (typ), and the key string under which
\* a constructor built them
Nil == [id |-> 0, key |-> "nil", typ |-> "nil"]

\* values of the implementation type Impl, made by the caller of Provide
TypImpl == "Impl"
Impl1 == [id |-> 0 - 1, key |-> "di.Impl", typ |-> TypImpl]
Impl2 == [id |-> 0 - 2, key |-> "di.Impl", typ |-> TypImpl]

\* ------------------------------------------------------------------- types
\* the reflect.Type values of the package's tests
TypA == "A"
TypB == "B"
TypC == "C"
TypD == "D"
TypError == "error"
TypI == "I"
TypX == "X"
TypString == "string"
\* a struct type E built from *A and *B
TypE == "E"
\* the type A of another package that is also named di
TypA2 == "A2"
\* the types the application registers
TypDB == "DB"
TypEmail == "Email"
TypJWT == "JWT"
TypPWReset == "PWReset"
TypStorage == "Storage"
TypUserRepo == "UserRepo"
TypUserSvc == "UserSvc"

\* the values InitContainer is given or makes before it makes the container:
\* gdb, emailService, jwtService, pwResetService and store; for a value held
\* as an interface, typ stands for its concrete type, which implements that
\* interface
gdb == [id |-> 0 - 3, key |-> "gdb", typ |-> TypDB]
emailService == [id |-> 0 - 4, key |-> "emailService", typ |-> TypEmail]
jwtService == [id |-> 0 - 5, key |-> "jwtService", typ |-> TypJWT]
pwResetService == [id |-> 0 - 6, key |-> "pwResetService", typ |-> TypPWReset]
store == [id |-> 0 - 7, key |-> "store", typ |-> TypStorage]

\* reflect.Type.String()
TypeString(t) ==
    CASE t = TypA -> "*di.A"
      [] t = TypB -> "*di.B"
      [] t = TypC -> "*di.C"
      [] t = TypD -> "*di.D"
      [] t = TypI -> "di.I"
      [] t = TypX -> "*di.X"
      [] t = TypString -> "string"
      [] t = TypE -> "*di.E"
      [] t = TypA2 -> "*di.A"
      [] t = TypImpl -> "di.Impl"
      [] t = TypDB -> "*gorm.DB"
      [] t = TypEmail -> "email.EmailServiceInterface"
      [] t = TypJWT -> "jwt.JWTServiceInterface"
      [] t = TypPWReset -> "pwreset.PasswordResetServiceInterface"
      [] t = TypStorage -> "storage.Storage"
      [] t = TypUserRepo -> "repo.UserRepository"
      [] t = TypUserSvc -> "*user.UserService"
      [] OTHER -> "error"

\* reflect.Type.Kind()
Kind(t) ==
    CASE t \in {TypA, TypB, TypC, TypD, TypX, TypE, TypA2, TypDB, TypUserSvc} -> "ptr"
      [] t = TypImpl -> "struct"
      [] t = TypString -> "string"
      [] OTHER -> "interface"

\* the constructors of the package's tests: func newA() *A,
\* func newB(a *A) (*B, error), func(d *D) *C and func(cc *C) *D
newA == "newA"
newB == "newB"
newC == "newC"
newD == "newD"
\* func(s string) *X of TestPrimitiveParamValidation, and a func() string
newX == "newX"
newS == "newS"
\* a func() (*A, error) whose second result may be a non-nil error
newAErr == "newAErr"
\* the closure func() T { return impl } that Provide registers
provide1 == "provide1"
provide2 == "provide2"
\* constructors for dependency graphs: func(a *A, b *B) *E, func(c *C) *C,
\* func(a *A) *D, func(e *E) *D and func(c *C) *E
newE == "newE"
newCSelf == "newCSelf"
newDA == "newDA"
newDE == "newDE"
newEC == "newEC"
\* a func(a *A) (*B, error) whose second result may be a non-nil error
newBErr == "newBErr"
\* constructors of the other package's A: func() *A and func(a *di.A) *A
newA2 == "newA2"
newA2A == "newA2A"
\* the constructors of InitContainer: func() *gorm.DB { return gdb }, the
\* closures of Provide for the three services, func() storage.Storage
\* { return store }, func(db *gorm.DB) repo.UserRepository and
\* func(userRepo repo.UserRepository, emailSvc email.EmailServiceInterface)
\* *user.UserService
dbFunc == "dbFunc"
provideEmail == "provideEmail"
provideJWT == "provideJWT"
providePWReset == "providePWReset"
storeFunc == "storeFunc"
newUserRepo == "newUserRepo"
newUserSvc == "newUserSvc"
\* constructors that Register refuses: func() and func() (*A, string)
newVoid == "newVoid"
newAStr == "newAStr"
NoCtor == "nil"

\* reflect.Value.Kind() of a constructor
CtorKind(ctor) == IF ctor = NoCtor THEN "invalid" ELSE "func"

\* the parameter types of a constructor: ctorType.In(i), i < ctorType.NumIn()
In(ctor) ==
    CASE ctor = newB -> <<TypA>>
      [] ctor = newC -> <<TypD>>
      [] ctor = newD -> <<TypC>>
      [] ctor = newX -> <<TypString>>
      [] ctor = newE -> <<TypA, TypB>>
      [] ctor = newCSelf -> <<TypC>>
      [] ctor = newDA -> <<TypA>>
      [] ctor = newDE -> <<TypE>>
      [] ctor = newEC -> <<TypC>>
      [] ctor = newA2A -> <<TypA>>
      [] ctor = newBErr -> <<TypA>>
      [] ctor = newUserRepo -> <<TypDB>>
      [] ctor = newUserSvc -> <<TypUserRepo, TypEmail>>
      [] OTHER -> <<>>

\* the result types of a constructor: ctorType.Out(i), i < ctorType.NumOut()
Out(ctor) ==
    CASE ctor = newA -> <<TypA>>
      [] ctor = newB -> <<TypB, TypError>>
      [] ctor = newC -> <<TypC>>
      [] ctor = newD -> <<TypD>>
      [] ctor = newX -> <<TypX>>
      [] ctor = newS -> <<TypString>>
      [] ctor = newAErr -> <<TypA, TypError>>
      [] ctor \in {provide1, provide2} -> <<TypI>>
      [] ctor \in {newE, newEC} -> <<TypE>>
      [] ctor = newCSelf -> <<TypC>>
      [] ctor \in {newDA, newDE} -> <<TypD>>
      [] ctor = newAStr -> <<TypA, TypString>>
      [] ctor \in {newA2, newA2A} -> <<TypA2>>
      [] ctor = newBErr -> <<TypB, TypError>>
      [] ctor = dbFunc -> <<TypDB>>
      [] ctor = provideEmail -> <<TypEmail>>
      [] ctor = provideJWT -> <<TypJWT>>
      [] ctor = providePWReset -> <<TypPWReset>>
      [] ctor = storeFunc -> <<TypStorage>>
      [] ctor = newUserRepo -> <<TypUserRepo>>
      [] ctor = newUserSvc -> <<TypUserSvc>>
      [] OTHER -> <<>>

\* the closure of Provide for impl
Closure(impl) ==
    CASE impl = Impl1 -> provide1
      [] impl = emailService -> provideEmail
      [] impl = jwtService -> provideJWT
      [] impl = pwResetService -> providePWReset
      [] OTHER -> provide2

\* a closure that captured nothing
CapturedNone(ctor) == Nil

\* the value a closure of Provide captured and returns; Nil for a constructor
\* that allocates the object it returns
Captured(ctor) ==
    CASE ctor = provide1 -> Impl1
      [] ctor = provide2 -> Impl2
      [] ctor = dbFunc -> gdb
      [] ctor = provideEmail -> emailService
      [] ctor = provideJWT -> jwtService
      [] ctor = providePWReset -> pwResetService
      [] ctor = storeFunc -> store
      [] OTHER -> Nil

\* the constructors whose second result may be a non-nil error
Fallible(ctor) == ctor \in {newAErr, newBErr}

typeKey(t, tag) == [typ |-> t, tag |-> tag]

String(tk) == IF tk.tag = "" THEN TypeString(tk.typ) ELSE TypeString(tk.typ) \o ":" \o tk.tag

isErrorType(t) == t = TypError

\* a kind test that takes no kind for primitive
isPrimitiveKindNever(k) == FALSE

isPrimitiveKind(k) == k \in {"bool", "int", "uint", "float", "complex", "string"}

\* --------------------------------------------------------------- map helpers
EmptyMap == [x \in {} |-> Nil]
Has(m, k) == k \in DOMAIN m
Put(m, k, v) == [x \in (DOMAIN m) \cup {k} |-> IF x = k THEN v ELSE m[x]]
Del(m, k) == [x \in (DOMAIN m) \ {k} |-> m[x]]

\* ------------------------------------------------------------------- state
VARIABLES
    closed,           \* Container.closed (int32, atomic)
    mu,               \* Container.mu: 0, or the goroutine holding the write lock
    registrations,    \* Container.registrations: typeKey -> items of the list
    singletons,       \* Container.singletons: key string -> instance
    singletonsMutex,  \* Container.singletonsMutex: key string -> mutex object
    resolving,        \* Container.resolving: the key strings present
    mutexes,          \* the sync.Mutex objects allocated: holder, or 0
    nextInst,         \* identity of the next object a constructor allocates
    stack,            \* per goroutine: its resolveSlice/resolveType frames
    call,             \* per goroutine: the public call it is in
    res,              \* per goroutine: what its last public call returned
    budget,           \* public calls the goroutines may still begin
    purged,           \* a Clear or a Close has begun
    closeReturned,    \* a Close has returned
    ctorRuns,         \* key string -> constructions completed with success
    DIContainer       \* the application's global DIContainer is assigned (not nil)

vars == <<closed, mu, registrations, singletons, singletonsMutex, resolving,
          mutexes, nextInst, stack, call, res, budget, purged, closeReturned,
          ctorRuns, DIContainer>>

container == <<closed, mu, registrations, singletons, singletonsMutex, resolving,
               mutexes>>

Idle == [op |-> "idle", pc |-> "idle"]
NoRes == [op |-> "none"]
NoReg == [scope |-> Singleton, tag |-> "", constructor |-> NoCtor, directFactory |-> NoCtor]
NoOut == [val |-> Nil, err |-> NoErr]

\* a check of the closed flag that never finds it set
isClosedNever == FALSE

isClosed == closed # 0

\* New() and the goroutines before their first call
New ==
    /\ closed = 0
    /\ mu = 0
    /\ registrations = EmptyMap
    /\ singletons = EmptyMap
    /\ singletonsMutex = EmptyMap
    /\ resolving = {}
    /\ mutexes = <<>>
    /\ nextInst = 1
    /\ stack = [p \in Procs |-> <<>>]
    /\ call = [p \in Procs |-> Idle]
    /\ res = [p \in Procs |-> NoRes]
    /\ purged = FALSE
    /\ closeReturned = FALSE
    /\ ctorRuns = EmptyMap
    /\ DIContainer = FALSE

Init == New /\ budget = MaxCalls

\* a public call begins, is entered (it has more steps to take), or returns
Begin(p) ==
    /\ call[p] = Idle
    /\ budget > 0
    /\ budget' = budget - 1

Enter(p, c) ==
    /\ call' = [call EXCEPT ![p] = c]
    /\ res' = [res EXCEPT ![p] = NoRes]

Return(p, r) ==
    /\ call' = [call EXCEPT ![p] = Idle]
    /\ res' = [res EXCEPT ![p] = r]

RegCount(key) == IF Has(registrations, key) THEN Len(registrations[key]) ELSE 0

\* ---------------------------------------------------------------- Register
AssignableTo(a, b) == a = b

\* the checks of Register on the constructor's shape; NoErr when it passes
ValidateConstructor(t, ctor) ==
    IF CtorKind(ctor) # "func" THEN ErrNotFunc
    ELSE IF Len(Out(ctor)) # 1 /\ Len(Out(ctor)) # 2 THEN ErrArity
    ELSE IF ~AssignableTo(Out(ctor)[1], t) THEN ErrAssign
    ELSE IF Len(Out(ctor)) = 2 /\ ~isErrorType(Out(ctor)[2]) THEN ErrSecond
    ELSE NoErr

\* the first parameter from index i on that is of a primitive kind, or 0
NextPrimitive(ctor, i) ==
    LET S == {j \in i..Len(In(ctor)) : isPrimitiveKind(Kind(In(ctor)[j]))}
    IN IF S = {} THEN 0 ELSE CHOOSE j \in S : \A k \in S : j <= k

\* the public calls that end in the critical section of Register
RegisterOps == {"Register", "RegisterFactory", "Provide"}

\* Register calls in flight for key (they may still append)
Appending(key) ==
    Cardinality({q \in Procs : /\ call[q].op \in RegisterOps
                               /\ typeKey(call[q].typ, call[q].tag) = key})

RegResult(c, err) ==
    [op |-> c.op, key |-> typeKey(c.typ, c.tag), err |-> err, afterClose |-> c.afterClose,
     at |-> c.pc, ctor |-> c.constructor]

\* the body of Register up to its first wait for c.mu, run for the public
\* call op: the closed check and the validation of the constructor's outputs
RegisterBody(p, op, t, ctor, scope, tag) ==
    LET j == NextPrimitive(ctor, 1)
        c == [op |-> op, pc |-> IF j = 0 THEN "lock" ELSE "params", typ |-> t,
              constructor |-> ctor, directFactory |-> NoCtor, scope |-> scope,
              tag |-> tag, i |-> j, afterClose |-> closeReturned]
        err == IF isClosed THEN ErrClosed ELSE ValidateConstructor(t, ctor)
    IN IF err # NoErr THEN Return(p, RegResult([c EXCEPT !.pc = "validate"], err))
       ELSE Enter(p, c)

\* Register up to its first wait for c.mu
Register(p, t, ctor, scope, tag) ==
    /\ Begin(p)
    /\ RegCount(typeKey(t, tag)) + Appending(typeKey(t, tag)) < MaxItems
    /\ RegisterBody(p, "Register", t, ctor, scope, tag)
    /\ UNCHANGED <<container, nextInst, stack, purged, closeReturned, DIContainer, ctorRuns>>

\* Provide: the kind check, then Register of the closure as a Singleton
Provide(p, t, impl, tag) ==
    /\ Begin(p)
    /\ RegCount(typeKey(t, tag)) + Appending(typeKey(t, tag)) < MaxItems
    /\ IF Kind(t) # "interface"
       THEN Return(p, [op |-> "Provide", key |-> typeKey(t, tag), err |-> ErrProvide,
                       afterClose |-> closeReturned, at |-> "kind"])
       ELSE RegisterBody(p, "Provide", t, Closure(impl), Singleton, tag)
    /\ UNCHANGED <<container, nextInst, stack, purged, closeReturned, DIContainer, ctorRuns>>

\* Register: one primitive parameter looked up under c.mu.RLock
Register_param(p) ==
    /\ call[p].op \in RegisterOps /\ call[p].pc = "params"
    /\ mu = 0
    /\ LET c == call[p]
           j == NextPrimitive(c.constructor, c.i + 1)
       IN IF ~Has(registrations, typeKey(In(c.constructor)[c.i], ""))
          THEN Return(p, RegResult(c, ErrPrimitive))
          ELSE /\ call' = [call EXCEPT ![p] = [c EXCEPT !.pc = IF j = 0 THEN "lock" ELSE "params",
                                                         !.i = j]]
               /\ UNCHANGED res
    /\ UNCHANGED <<container, nextInst, stack, budget, purged, closeReturned, DIContainer, ctorRuns>>

\* an append that replaces the list of key by the new registration alone
Append_regReplace(regs, key, reg) == Put(regs, key, <<reg>>)

\* the registrations after reg is appended to the list of key
Append_reg(regs, key, reg) ==
    Put(regs, key, IF Has(regs, key) THEN Append(regs[key], reg) ELSE <<reg>>)

\* the closed check left out of the critical section
ClosedUnderLockNever == FALSE

\* the closed check Register and RegisterFactory repeat while holding c.mu
ClosedUnderLock == isClosed

\* Register and RegisterFactory: the critical section of c.mu.Lock
Register_commit(p) ==
    /\ call[p].op \in RegisterOps /\ call[p].pc = "lock"
    /\ mu = 0
    /\ LET c == call[p]
           reg == [scope |-> c.scope, tag |-> c.tag, constructor |-> c.constructor,
                   directFactory |-> c.directFactory]
       IN IF ClosedUnderLock
          THEN /\ Return(p, RegResult(c, ErrClosed))
               /\ UNCHANGED registrations
          ELSE /\ registrations' = Append_reg(registrations, typeKey(c.typ, c.tag), reg)
               /\ Return(p, RegResult(c, NoErr))
    /\ UNCHANGED <<closed, mu, singletons, singletonsMutex, resolving, mutexes,
                   nextInst, stack, budget, purged, closeReturned, DIContainer, ctorRuns>>

\* RegisterFactory up to its wait for c.mu: the closed check
RegisterFactory(p, t, factory, scope, tag) ==
    /\ Begin(p)
    /\ RegCount(typeKey(t, tag)) + Appending(typeKey(t, tag)) < MaxItems
    /\ LET c == [op |-> "RegisterFactory", pc |-> "lock", typ |-> t, constructor |-> NoCtor,
                 directFactory |-> factory, scope |-> scope, tag |-> tag, i |-> 0,
                 afterClose |-> closeReturned]
       IN IF isClosed THEN Return(p, RegResult([c EXCEPT !.pc = "validate"], ErrClosed))
          ELSE Enter(p, c)
    /\ UNCHANGED <<container, nextInst, stack, purged, closeReturned, DIContainer, ctorRuns>>

\* ------------------------------------------------------------ InitContainer
\* the program has ended: main returns when InitContainer returns an error,
\* and a panic ends it
Halted ==
    \E p \in Procs : \/ (res[p].op = "InitContainer" /\ res[p].err # NoErr)
                      \/ (res[p].op = "MustResolve" /\ res[p].panic)

\* the registrations of InitContainer after the first, in their order
RestCalls ==
    << [fn |-> "Provide", typ |-> TypEmail, ctor |-> Closure(emailService)],
       [fn |-> "Provide", typ |-> TypJWT, ctor |-> Closure(jwtService)],
       [fn |-> "Provide", typ |-> TypPWReset, ctor |-> Closure(pwResetService)],
       [fn |-> "Register", typ |-> TypStorage, ctor |-> storeFunc],
       [fn |-> "Register", typ |-> TypUserRepo, ctor |-> newUserRepo],
       [fn |-> "Register", typ |-> TypUserSvc, ctor |-> newUserSvc] >>

\* an InitContainer that does not register the database
InitCallsNoDB == RestCalls

\* the registrations of InitContainer, all Singleton and untagged
InitCalls == <<[fn |-> "Register", typ |-> TypDB, ctor |-> dbFunc]>> \o RestCalls

\* the error that Register or Provide returns for the call r on the open
\* container with the registrations regs that no other goroutine knows
RegisterError(regs, r) ==
    IF r.fn = "Provide" /\ Kind(r.typ) # "interface" THEN ErrProvide
    ELSE IF ValidateConstructor(r.typ, r.ctor) # NoErr THEN ValidateConstructor(r.typ, r.ctor)
    ELSE IF \E i \in 1..Len(In(r.ctor)) : /\ isPrimitiveKind(Kind(In(r.ctor)[i]))
                                          /\ ~Has(regs, typeKey(In(r.ctor)[i], ""))
         THEN ErrPrimitive
    ELSE NoErr

\* the calls i.. of InitContainer on the registrations regs: the error of the
\* first that fails, or the registrations after the last
RECURSIVE RegisterAll(_, _)
RegisterAll(regs, i) ==
    IF i > Len(InitCalls) THEN [err |-> NoErr, regs |-> regs]
    ELSE LET r == InitCalls[i]
             e == RegisterError(regs, r)
         IN IF e # NoErr THEN [err |-> e, regs |-> regs]
            ELSE RegisterAll(Append_reg(regs, typeKey(r.typ, ""),
                                        [scope |-> Singleton, tag |-> "", constructor |-> r.ctor,
                                         directFactory |-> NoCtor]), i + 1)

\* InitContainer, called once by main: the email or the s3 factory fails
\* (failing) and it returns the error; or it makes a container, registers
\* into it, returns the first error of a registration, and otherwise assigns
\* the container to DIContainer
InitContainer(p, failing) ==
    /\ Begin(p)
    /\ ~Halted /\ ~DIContainer
    /\ LET r == RegisterAll(EmptyMap, 1)
           e == IF failing THEN ErrFactory ELSE r.err
       IN /\ Return(p, [op |-> "InitContainer", err |-> e, afterClose |-> closeReturned])
          /\ IF e # NoErr
             THEN UNCHANGED <<container, DIContainer>>
             ELSE /\ closed' = 0 /\ mu' = 0
                  /\ registrations' = r.regs
                  /\ singletons' = EmptyMap /\ singletonsMutex' = EmptyMap
                  /\ resolving' = {} /\ mutexes' = <<>>
                  /\ DIContainer' = TRUE
    /\ UNCHANGED <<nextInst, stack, purged, closeReturned, ctorRuns>>

\* ------------------------------------------------------------ Clear, Close
\* Clear, up to its wait for c.mu
Clear(p) ==
    /\ Begin(p)
    /\ Enter(p, [op |-> "Clear", pc |-> "lock", afterClose |-> closeReturned])
    /\ purged' = TRUE
    /\ UNCHANGED <<container, nextInst, stack, closeReturned, DIContainer, ctorRuns>>

\* Close, up to its wait for c.mu: the store of the closed flag
Close(p) ==
    /\ Begin(p)
    /\ Enter(p, [op |-> "Close", pc |-> "lock", afterClose |-> closeReturned])
    /\ closed' = 1
    /\ purged' = TRUE
    /\ UNCHANGED <<mu, registrations, singletons, singletonsMutex, resolving, mutexes,
                   nextInst, stack, closeReturned, DIContainer, ctorRuns>>

\* c.mu.Lock() and the replacement of the registration map
Purge_registrations(p) ==
    /\ call[p].op \in {"Clear", "Close"} /\ call[p].pc = "lock"
    /\ mu = 0
    /\ mu' = p
    /\ registrations' = EmptyMap
    /\ call' = [call EXCEPT ![p].pc = "singletons"]
    /\ UNCHANGED <<closed, singletons, singletonsMutex, resolving, mutexes, nextInst,
                   stack, res, budget, purged, closeReturned, DIContainer, ctorRuns>>

\* a purge that leaves the singleton cache as it is
Purge_singletonsSkip(p) ==
    /\ call[p].op \in {"Clear", "Close"} /\ call[p].pc = "singletons"
    /\ call' = [call EXCEPT ![p].pc = "singletonsMutex"]
    /\ UNCHANGED <<closed, mu, registrations, singletons, singletonsMutex, resolving, mutexes,
                   nextInst, stack, res, budget, purged, closeReturned, DIContainer, ctorRuns>>

\* c.singletons.Range(Delete)
Purge_singletons(p) ==
    /\ call[p].op \in {"Clear", "Close"} /\ call[p].pc = "singletons"
    /\ singletons' = EmptyMap
    /\ call' = [call EXCEPT ![p].pc = "singletonsMutex"]
    /\ UNCHANGED <<closed, mu, registrations, singletonsMutex, resolving, mutexes,
                   nextInst, stack, res, budget, purged, closeReturned, DIContainer, ctorRuns>>

\* c.singletonsMutex.Range(Delete)
Purge_singletonsMutex(p) ==
    /\ call[p].op \in {"Clear", "Close"} /\ call[p].pc = "singletonsMutex"
    /\ singletonsMutex' = EmptyMap
    /\ call' = [call EXCEPT ![p].pc = "resolving"]
    /\ UNCHANGED <<closed, mu, registrations, singletons, resolving, mutexes,
                   nextInst, stack, res, budget, purged, closeReturned, DIContainer, ctorRuns>>

\* c.resolving.Range(Delete), the deferred c.mu.Unlock() and the return
Purge_resolving(p) ==
    /\ call[p].op \in {"Clear", "Close"} /\ call[p].pc = "resolving"
    /\ resolving' = {}
    /\ mu' = 0
    /\ closeReturned' = (closeReturned \/ call[p].op = "Close")
    /\ Return(p, [op |-> call[p].op, err |-> NoErr, afterClose |-> call[p].afterClose])
    /\ UNCHANGED <<closed, registrations, singletons, singletonsMutex, mutexes,
                   nextInst, stack, budget, purged, ctorRuns, DIContainer>>

\* --------------------------------------------------- Resolve, ResolveWithTag
\* a frame of resolveType(t, tag) (or of resolveSlice(t)) at its first statement
Frame(fn, t, tag, pc) ==
    [fn |-> fn, key |-> typeKey(t, tag), pc |-> pc, reg |-> NoReg, i |-> 1,
     args |-> <<>>, m |-> 0, out |-> NoOut, entries |-> {}, built |-> 0]

\* no frame: Resolve returned before it called resolveType
NoFrame == Frame("none", TypError, "", "none")

Top(p) == stack[p][Len(stack[p])]

Running(p, fn, pc) ==
    /\ stack[p] # <<>>
    /\ Top(p).fn = fn
    /\ Top(p).pc = pc

SetTop(p, f) == stack' = [stack EXCEPT ![p] = [@ EXCEPT ![Len(@)] = f]]

Push(p, f) == stack' = [stack EXCEPT ![p] = Append(@, f)]

\* the key strings of the resolveType frames below the top frame of p
Enclosing(p) ==
    {String(stack[p][j].key) : j \in {k \in 1..(Len(stack[p]) - 1) : stack[p][k].fn = "resolveType"}}

\* the registrations a call finds when it begins: key -> length of its list
RegsAt == [k \in DOMAIN registrations |-> Len(registrations[k])]

\* the type assertion res.(T) holds of the object v: its dynamic type is T,
\* or T is the interface I that Impl implements
AssertsTo(v, t) == v.typ = t \/ (t = TypI /\ v.typ = TypImpl)

\* what Resolve returns (val, err; vals for a slice), with what the call saw:
\* f is the returning frame, made the objects allocated since the call began;
\* panic when the conversion of the result to T panics instead
ResolveResult(c, f, out, vals) ==
    [op |-> c.op, key |-> typeKey(c.typ, c.tag), err |-> out.err, val |-> out.val,
     vals |-> vals, afterClose |-> c.afterClose, regsAt |-> c.regsAt,
     reg |-> f.reg, built |-> f.built, fresh |-> out.val.id >= c.inst0,
     made |-> nextInst - c.inst0,
     panic |-> \/ (c.op = "MustResolve" /\ out.err # NoErr)
               \/ (c.op # "ResolveSlice" /\ out.err = NoErr /\ ~AssertsTo(out.val, c.typ))]

\* Resolve[T] for a T that is not a slice, up to the call of resolveType
Resolve(p, t) ==
    /\ Begin(p)
    /\ Kind(t) # "slice"
    /\ LET c == [op |-> "Resolve", pc |-> "resolveType", typ |-> t, tag |-> "",
                 afterClose |-> closeReturned, regsAt |-> RegsAt, inst0 |-> nextInst]
       IN IF isClosed
          THEN /\ Return(p, ResolveResult(c, NoFrame, [val |-> Nil, err |-> ErrClosed], <<>>))
               /\ UNCHANGED stack
          ELSE /\ Enter(p, c)
               /\ Push(p, Frame("resolveType", t, "", "guard"))
    /\ UNCHANGED <<container, nextInst, purged, closeReturned, DIContainer, ctorRuns>>

\* MustResolve[T]: Resolve[T], and a panic when it returns an error
MustResolve(p, t) ==
    /\ Begin(p)
    /\ Kind(t) # "slice"
    /\ LET c == [op |-> "MustResolve", pc |-> "resolveType", typ |-> t, tag |-> "",
                 afterClose |-> closeReturned, regsAt |-> RegsAt, inst0 |-> nextInst]
       IN IF isClosed
          THEN /\ Return(p, ResolveResult(c, NoFrame, [val |-> Nil, err |-> ErrClosed], <<>>))
               /\ UNCHANGED stack
          ELSE /\ Enter(p, c)
               /\ Push(p, Frame("resolveType", t, "", "guard"))
    /\ UNCHANGED <<container, nextInst, purged, closeReturned, DIContainer, ctorRuns>>

\* MustResolve[T](DIContainer) of the application's getters: on the nil
\* container the closed check of Resolve dereferences nil and panics
MustResolveGlobal(p, t) ==
    /\ ~Halted
    /\ IF DIContainer
       THEN MustResolve(p, t)
       ELSE /\ Begin(p)
            /\ Return(p, ResolveResult([op |-> "MustResolve", typ |-> t, tag |-> "",
                                        afterClose |-> closeReturned, regsAt |-> RegsAt,
                                        inst0 |-> nextInst],
                                       NoFrame, [val |-> Nil, err |-> ErrNilContainer], <<>>))
            /\ UNCHANGED <<container, nextInst, stack, purged, closeReturned, DIContainer,
                           ctorRuns>>

GetUserService(p) == MustResolveGlobal(p, TypUserSvc)

GetUserRepository(p) == MustResolveGlobal(p, TypUserRepo)

\* ResolveWithTag[T], up to the call of resolveType
ResolveWithTag(p, t, tag) ==
    /\ Begin(p)
    /\ LET c == [op |-> "ResolveWithTag", pc |-> "resolveType", typ |-> t, tag |-> tag,
                 afterClose |-> closeReturned, regsAt |-> RegsAt, inst0 |-> nextInst]
       IN IF isClosed
          THEN /\ Return(p, ResolveResult(c, NoFrame, [val |-> Nil, err |-> ErrClosed], <<>>))
               /\ UNCHANGED stack
          ELSE /\ Enter(p, c)
               /\ Push(p, Frame("resolveType", t, tag, "guard"))
    /\ UNCHANGED <<container, nextInst, purged, closeReturned, DIContainer, ctorRuns>>

\* Resolve[[]T], up to the call of resolveSlice(T)
ResolveSlice(p, elem) ==
    /\ Begin(p)
    /\ LET c == [op |-> "ResolveSlice", pc |-> "resolveSlice", typ |-> elem, tag |-> "",
                 afterClose |-> closeReturned, regsAt |-> RegsAt, inst0 |-> nextInst]
       IN IF isClosed
          THEN /\ Return(p, ResolveResult(c, NoFrame, [val |-> Nil, err |-> ErrClosed], <<>>))
               /\ UNCHANGED stack
          ELSE /\ Enter(p, c)
               /\ Push(p, Frame("resolveSlice", elem, "", "gather"))
    /\ UNCHANGED <<container, nextInst, purged, closeReturned, DIContainer, ctorRuns>>

\* an error of createInstance that is stored like a result
AfterErrorStore(f) == "store"

\* where resolveType goes when createInstance has returned an error: its
\* deferred calls, m.Unlock() first when it holds the creation mutex
AfterError(f) == IF f.reg.scope = Singleton THEN "unlock" ELSE "unguard"

\* a failed resolveSlice that returns the elements it has resolved
FailedSlicePartial(parent) == parent.args

\* what resolveSlice returns with an error: nil
FailedSlice(parent) == <<>>

\* the top frame of p returns out: to the frame that called it, or to the
\* public call when it is the outermost frame
Finish(p, out) ==
    LET s == stack[p]
        n == Len(s)
    IN IF n = 1
       THEN /\ stack' = [stack EXCEPT ![p] = <<>>]
            /\ Return(p, ResolveResult(call[p], s[n], out, <<>>))
       ELSE LET parent == s[n - 1] IN
            IF parent.fn = "resolveSlice"
            THEN IF out.err # NoErr
                 THEN /\ stack' = [stack EXCEPT ![p] = <<>>]
                      /\ Return(p, ResolveResult(call[p], s[n], out, FailedSlice(parent)))
                 ELSE /\ stack' = [stack EXCEPT ![p] =
                            Append(SubSeq(s, 1, n - 2),
                                   [parent EXCEPT !.args = Append(@, out.val)])]
                      /\ UNCHANGED <<call, res>>
            ELSE /\ stack' = [stack EXCEPT ![p] =
                       Append(SubSeq(s, 1, n - 2),
                              IF out.err # NoErr
                              THEN [parent EXCEPT !.out = [val |-> Nil, err |-> out.err],
                                                  !.pc = AfterError(parent)]
                              ELSE [parent EXCEPT !.args = Append(@, out.val),
                                                  !.i = @ + 1])]
                 /\ UNCHANGED <<call, res>>

\* a rejection that also deletes the entry it found in the guard set, as if
\* the Delete were deferred before the LoadOrStore
resolveType_guardDrop(p) ==
    /\ Running(p, "resolveType", "guard")
    /\ LET f == Top(p)
           keyStr == String(f.key)
       IN IF keyStr \in resolving
          THEN /\ Finish(p, [val |-> Nil, err |-> ErrCircular])
               /\ resolving' = resolving \ {keyStr}
          ELSE /\ resolving' = resolving \cup {keyStr}
               /\ SetTop(p, [f EXCEPT !.pc = "lookup"])
               /\ UNCHANGED <<call, res>>
    /\ UNCHANGED <<closed, mu, registrations, singletons, singletonsMutex, mutexes,
                   nextInst, budget, purged, closeReturned, DIContainer, ctorRuns>>

\* resolveType: c.resolving.LoadOrStore(keyStr, true)
resolveType_guard(p) ==
    /\ Running(p, "resolveType", "guard")
    /\ LET f == Top(p)
           keyStr == String(f.key)
       IN IF keyStr \in resolving
          THEN /\ Finish(p, [val |-> Nil, err |-> ErrCircular])
               /\ UNCHANGED resolving
          ELSE /\ resolving' = resolving \cup {keyStr}
               /\ SetTop(p, [f EXCEPT !.pc = "lookup"])
               /\ UNCHANGED <<call, res>>
    /\ UNCHANGED <<closed, mu, registrations, singletons, singletonsMutex, mutexes,
                   nextInst, budget, purged, closeReturned, DIContainer, ctorRuns>>

\* where resolveType goes with a registration whatever its scope
AfterLookupCached(reg) == "load"

\* where resolveType goes with the registration it found: the cache for a
\* Singleton, createInstance for a Transient
AfterLookup(reg) == IF reg.scope = Singleton THEN "load" ELSE "create"

\* a test that never finds a key ambiguous
AmbiguousNever(cnt, t) == FALSE

\* more than one registration under the key of a resolveType(t, tag)
Ambiguous(cnt, t) == cnt > 1 /\ Kind(t) # "slice"

\* a lookup that creates the empty list of a key it does not find
resolveType_lookupCreate(p) ==
    /\ Running(p, "resolveType", "lookup")
    /\ mu = 0
    /\ LET f == Top(p)
           cnt == RegCount(f.key)
           fail(e) == [f EXCEPT !.out = [val |-> Nil, err |-> e], !.pc = "unguard"]
       IN IF ~Has(registrations, f.key) \/ cnt = 0
          THEN /\ SetTop(p, fail(ErrNotFound))
               /\ registrations' = Put(registrations, f.key, <<>>)
          ELSE /\ SetTop(p, IF Ambiguous(cnt, f.key.typ) THEN fail(ErrAmbiguous)
                            ELSE [f EXCEPT !.reg = registrations[f.key][1],
                                           !.pc = AfterLookup(registrations[f.key][1])])
               /\ UNCHANGED registrations
    /\ UNCHANGED <<closed, mu, singletons, singletonsMutex, resolving, mutexes, nextInst,
                   call, res, budget, purged, closeReturned, DIContainer, ctorRuns>>

\* resolveType: the registration list read under c.mu.RLock and regList.mu.RLock
resolveType_lookup(p) ==
    /\ Running(p, "resolveType", "lookup")
    /\ mu = 0
    /\ LET f == Top(p)
           cnt == RegCount(f.key)
           fail(e) == [f EXCEPT !.out = [val |-> Nil, err |-> e], !.pc = "unguard"]
       IN SetTop(p, IF ~Has(registrations, f.key) \/ cnt = 0 THEN fail(ErrNotFound)
                    ELSE IF Ambiguous(cnt, f.key.typ) THEN fail(ErrAmbiguous)
                    ELSE [f EXCEPT !.reg = registrations[f.key][1],
                                   !.pc = AfterLookup(registrations[f.key][1])])
    /\ UNCHANGED <<container, nextInst, call, res, budget, purged, closeReturned, DIContainer, ctorRuns>>

\* a lookup that misses whatever the cache holds
LoadNever(keyStr) == Nil

\* what c.singletons.Load(keyStr) finds
Load(keyStr) == IF Has(singletons, keyStr) THEN singletons[keyStr] ELSE Nil

\* resolveType: the first c.singletons.Load(keyStr)
resolveType_load(p) ==
    /\ Running(p, "resolveType", "load")
    /\ LET f == Top(p)
           instance == Load(String(f.key))
       IN SetTop(p, IF instance # Nil
                    THEN [f EXCEPT !.out = [val |-> instance, err |-> NoErr], !.pc = "unguard"]
                    ELSE [f EXCEPT !.pc = "mutex"])
    /\ UNCHANGED <<container, nextInst, call, res, budget, purged, closeReturned, DIContainer, ctorRuns>>

\* resolveType: c.singletonsMutex.LoadOrStore(keyStr, &sync.Mutex{})
resolveType_mutex(p) ==
    /\ Running(p, "resolveType", "mutex")
    /\ LET f == Top(p)
           keyStr == String(f.key)
       IN IF Has(singletonsMutex, keyStr)
          THEN /\ SetTop(p, [f EXCEPT !.m = singletonsMutex[keyStr], !.pc = "lock"])
               /\ UNCHANGED <<singletonsMutex, mutexes>>
          ELSE /\ Len(mutexes) < MaxMutex
               /\ mutexes' = Append(mutexes, 0)
               /\ singletonsMutex' = Put(singletonsMutex, keyStr, Len(mutexes) + 1)
               /\ SetTop(p, [f EXCEPT !.m = Len(mutexes) + 1, !.pc = "lock"])
    /\ UNCHANGED <<closed, mu, registrations, singletons, resolving, nextInst, call, res,
                   budget, purged, closeReturned, DIContainer, ctorRuns>>

\* resolveType: m.Lock()
resolveType_lock(p) ==
    /\ Running(p, "resolveType", "lock")
    /\ mutexes[Top(p).m] = 0
    /\ mutexes' = [mutexes EXCEPT ![Top(p).m] = p]
    /\ SetTop(p, [Top(p) EXCEPT !.pc = "recheck"])
    /\ UNCHANGED <<closed, mu, registrations, singletons, singletonsMutex, resolving,
                   nextInst, call, res, budget, purged, closeReturned, DIContainer, ctorRuns>>

\* resolveType: the second c.singletons.Load(keyStr), under the creation mutex
resolveType_recheck(p) ==
    /\ Running(p, "resolveType", "recheck")
    /\ LET f == Top(p)
           instance == Load(String(f.key))
       IN SetTop(p, IF instance # Nil
                    THEN [f EXCEPT !.out = [val |-> instance, err |-> NoErr], !.pc = "unlock"]
                    ELSE [f EXCEPT !.pc = "create"])
    /\ UNCHANGED <<container, nextInst, call, res, budget, purged, closeReturned, DIContainer, ctorRuns>>

\* a createInstance that passes nil for a parameter instead of resolving it
createInstance_paramSkip(p) ==
    /\ Running(p, "resolveType", "create")
    /\ LET f == Top(p)
       IN /\ f.reg.directFactory = NoCtor
          /\ f.i <= Len(In(f.reg.constructor))
          /\ SetTop(p, [f EXCEPT !.args = Append(@, Nil), !.i = @ + 1])
    /\ UNCHANGED <<container, nextInst, call, res, budget, purged, closeReturned, DIContainer, ctorRuns>>

\* parameters resolved under the tag "x"
ParamTagX == "x"

\* the tag under which createInstance resolves every parameter
ParamTag == ""

\* createInstance: resolveType(paramType, "") for the next parameter
createInstance_param(p) ==
    /\ Running(p, "resolveType", "create")
    /\ LET f == Top(p)
       IN /\ f.reg.directFactory = NoCtor
          /\ f.i <= Len(In(f.reg.constructor))
          /\ Push(p, Frame("resolveType", In(f.reg.constructor)[f.i], ParamTag, "guard"))
    /\ UNCHANGED <<container, nextInst, call, res, budget, purged, closeReturned, DIContainer, ctorRuns>>

\* the recipe that createInstance runs for a registration
Recipe(reg) == IF reg.directFactory # NoCtor THEN reg.directFactory ELSE reg.constructor

\* createInstance: reg.directFactory(), or reg.constructor.Call(args) once
\* every parameter is resolved, returning a value and no error; the recipe
\* allocates a new object unless it is a closure of Provide
createInstance_call(p) ==
    /\ Running(p, "resolveType", "create")
    /\ LET f == Top(p)
           keyStr == String(f.key)
           allocates == Captured(Recipe(f.reg)) = Nil
           result == IF allocates THEN [id |-> nextInst, key |-> keyStr, typ |-> f.key.typ]
                     ELSE Captured(Recipe(f.reg))
       IN /\ f.reg.directFactory # NoCtor \/ f.i > Len(In(f.reg.constructor))
          /\ allocates => nextInst <= MaxInst
          /\ nextInst' = IF allocates THEN nextInst + 1 ELSE nextInst
          /\ ctorRuns' = Put(ctorRuns, keyStr, IF Has(ctorRuns, keyStr) THEN ctorRuns[keyStr] + 1 ELSE 1)
          /\ SetTop(p, [f EXCEPT !.out = [val |-> result, err |-> NoErr],
                                 !.built = @ + 1,
                                 !.pc = IF f.reg.scope = Singleton THEN "store" ELSE "unguard"])
    /\ UNCHANGED <<container, call, res, budget, purged, closeReturned, DIContainer>>

\* a constructor error that also empties the singleton cache
createInstance_errorRollback(p) ==
    /\ Running(p, "resolveType", "create")
    /\ LET f == Top(p)
       IN /\ f.reg.directFactory = NoCtor
          /\ f.i > Len(In(f.reg.constructor))
          /\ Fallible(f.reg.constructor)
          /\ SetTop(p, [f EXCEPT !.out = [val |-> Nil, err |-> ErrCtor],
                                 !.built = @ + 1,
                                 !.pc = AfterError(f)])
    /\ singletons' = EmptyMap
    /\ UNCHANGED <<closed, mu, registrations, singletonsMutex, resolving, mutexes,
                   nextInst, call, res, budget, purged, closeReturned, DIContainer, ctorRuns>>

\* createInstance: reg.constructor.Call(args) returning a non-nil error as
\* its second result
createInstance_error(p) ==
    /\ Running(p, "resolveType", "create")
    /\ LET f == Top(p)
       IN /\ f.reg.directFactory = NoCtor
          /\ f.i > Len(In(f.reg.constructor))
          /\ Fallible(f.reg.constructor)
          /\ SetTop(p, [f EXCEPT !.out = [val |-> Nil, err |-> ErrCtor],
                                 !.built = @ + 1,
                                 !.pc = AfterError(f)])
    /\ UNCHANGED <<container, nextInst, call, res, budget, purged, closeReturned, DIContainer, ctorRuns>>

\* resolveType: c.singletons.Store(keyStr, result)
resolveType_store(p) ==
    /\ Running(p, "resolveType", "store")
    /\ singletons' = Put(singletons, String(Top(p).key), Top(p).out.val)
    /\ SetTop(p, [Top(p) EXCEPT !.pc = "mdelete"])
    /\ UNCHANGED <<closed, mu, registrations, singletonsMutex, resolving, mutexes,
                   nextInst, call, res, budget, purged, closeReturned, DIContainer, ctorRuns>>

\* resolveType: c.singletonsMutex.Delete(keyStr)
resolveType_mdelete(p) ==
    /\ Running(p, "resolveType", "mdelete")
    /\ singletonsMutex' = Del(singletonsMutex, String(Top(p).key))
    /\ SetTop(p, [Top(p) EXCEPT !.pc = "unlock"])
    /\ UNCHANGED <<closed, mu, registrations, singletons, resolving, mutexes,
                   nextInst, call, res, budget, purged, closeReturned, DIContainer, ctorRuns>>

\* resolveType: the deferred m.Unlock()
resolveType_unlock(p) ==
    /\ Running(p, "resolveType", "unlock")
    /\ mutexes' = [mutexes EXCEPT ![Top(p).m] = 0]
    /\ SetTop(p, [Top(p) EXCEPT !.pc = "unguard"])
    /\ UNCHANGED <<closed, mu, registrations, singletons, singletonsMutex, resolving,
                   nextInst, call, res, budget, purged, closeReturned, DIContainer, ctorRuns>>

\* a return that leaves the entry in the guard set
DeleteResolvingNever(keyStr) == resolving

\* c.resolving.Delete(keyStr)
DeleteResolving(keyStr) == resolving \ {keyStr}

\* a guard set that keeps the keys of a call until its outermost invocation
\* returns
resolveType_unguardOuter(p) ==
    /\ Running(p, "resolveType", "unguard")
    /\ resolving' = IF Len(stack[p]) = 1 THEN {} ELSE resolving
    /\ Finish(p, Top(p).out)
    /\ UNCHANGED <<closed, mu, registrations, singletons, singletonsMutex, mutexes,
                   nextInst, budget, purged, closeReturned, DIContainer, ctorRuns>>

\* resolveType: the deferred c.resolving.Delete(keyStr), and the return
resolveType_unguard(p) ==
    /\ Running(p, "resolveType", "unguard")
    /\ resolving' = DeleteResolving(String(Top(p).key))
    /\ Finish(p, Top(p).out)
    /\ UNCHANGED <<closed, mu, registrations, singletons, singletonsMutex, mutexes,
                   nextInst, budget, purged, closeReturned, DIContainer, ctorRuns>>

\* ------------------------------------------------------------- resolveSlice
\* resolveSlice: the keys of elemType gathered under c.mu.RLock
resolveSlice_gather(p) ==
    /\ Running(p, "resolveSlice", "gather")
    /\ mu = 0
    /\ SetTop(p, [Top(p) EXCEPT !.entries = {k \in DOMAIN registrations : k.typ = Top(p).key.typ},
                                !.pc = "elems"])
    /\ UNCHANGED <<container, nextInst, call, res, budget, purged, closeReturned, DIContainer, ctorRuns>>

\* a resolveSlice that resolves every gathered key without its tag
ElemTagNone(k) == ""

\* the tag resolveSlice passes to resolveType for the gathered key k
ElemTag(k) == k.tag

\* resolveSlice: resolveType(elemType, k.tag) for the next gathered key; the
\* keys come in the order of Go's map iteration, which is any order
resolveSlice_elem(p) ==
    /\ Running(p, "resolveSlice", "elems")
    /\ \E k \in Top(p).entries :
          stack' = [stack EXCEPT ![p] =
                       <<[Top(p) EXCEPT !.entries = @ \ {k}],
                         Frame("resolveType", Top(p).key.typ, ElemTag(k), "guard")>>]
    /\ UNCHANGED <<container, nextInst, call, res, budget, purged, closeReturned, DIContainer, ctorRuns>>

\* resolveSlice: every gathered key is resolved; the slice is returned
resolveSlice_return(p) ==
    /\ Running(p, "resolveSlice", "elems")
    /\ Top(p).entries = {}
    /\ stack' = [stack EXCEPT ![p] = <<>>]
    /\ Return(p, ResolveResult(call[p], Top(p), NoOut, Top(p).args))
    /\ UNCHANGED <<container, nextInst, budget, purged, closeReturned, DIContainer, ctorRuns>>

\* ------------------------------------------------------------- IsRegistered
\* an IsRegistered that looks at the type and not at the tag
IsRegisteredAnyTag(p, t, tag) ==
    /\ Begin(p)
    /\ mu = 0
    /\ Return(p, [op |-> "IsRegistered", key |-> typeKey(t, tag), err |-> NoErr,
                  found |-> \E k \in DOMAIN registrations : k.typ = t /\ RegCount(k) > 0,
                  afterClose |-> closeReturned])
    /\ UNCHANGED <<container, nextInst, stack, purged, closeReturned, DIContainer, ctorRuns>>

\* IsRegistered: the list of the key read under c.mu.RLock and regList.mu.RLock
IsRegistered(p, t, tag) ==
    /\ Begin(p)
    /\ mu = 0
    /\ Return(p, [op |-> "IsRegistered", key |-> typeKey(t, tag), err |-> NoErr,
                  found |-> RegCount(typeKey(t, tag)) > 0, afterClose |-> closeReturned])
    /\ UNCHANGED <<container, nextInst, stack, purged, closeReturned, DIContainer, ctorRuns>>

\* -------------------------------------------------------------- behaviours
\* the steps of resolveType and createInstance
ResolveStep(p) ==
    \/ resolveType_guard(p)
    \/ resolveType_lookup(p)
    \/ resolveType_load(p)
    \/ resolveType_mutex(p)
    \/ resolveType_lock(p)
    \/ resolveType_recheck(p)
    \/ createInstance_param(p)
    \/ createInstance_call(p)
    \/ resolveType_store(p)
    \/ resolveType_mdelete(p)
    \/ resolveType_unlock(p)
    \/ resolveType_unguard(p)

\* the steps of Clear and Close
PurgeStep(p) ==
    \/ Purge_registrations(p)
    \/ Purge_singletons(p)
    \/ Purge_singletonsMutex(p)
    \/ Purge_resolving(p)

\* the steps of resolveSlice
SliceStep(p) ==
    \/ resolveSlice_gather(p)
    \/ resolveSlice_elem(p)
    \/ resolveSlice_return(p)

\* the scopes a registration is made with
Scopes == {Singleton, Transient}

KeyA == typeKey(TypA, "")
KeyB == typeKey(TypB, "")
KeyC == typeKey(TypC, "")
KeyD == typeKey(TypD, "")

\* The life of a container: *di.A registered by constructor and by factory,
\* untagged and tagged, resolved alone, by tag and as a slice, while other
\* goroutines Clear and Close the container.
Next ==
    \E p \in Procs :
        \/ \E scope \in Scopes : Register(p, TypA, newA, scope, "")
        \/ RegisterFactory(p, TypA, newA, Singleton, "x")
        \/ Resolve(p, TypA)
        \/ ResolveWithTag(p, TypA, "x")
        \/ ResolveSlice(p, TypA)
        \/ Clear(p)
        \/ Close(p)
        \/ Register_commit(p)
        \/ PurgeStep(p)
        \/ SliceStep(p)
        \/ resolveType_guard(p)
        \/ resolveType_lookup(p)
        \/ resolveType_load(p)
        \/ resolveType_mutex(p)
        \/ resolveType_lock(p)
        \/ resolveType_recheck(p)
        \/ createInstance_call(p)
        \/ resolveType_store(p)
        \/ resolveType_mdelete(p)
        \/ resolveType_unlock(p)
        \/ resolveType_unguard(p)

Spec == Init /\ [][Next]_vars

\* Resolution with a dependency and no teardown: *di.B built by newB from
\* *di.A, the two registered and resolved by concurrent goroutines.
NextDeps ==
    \E p \in Procs :
        \/ \E scope \in Scopes : Register(p, TypA, newA, scope, "")
        \/ \E scope \in Scopes : Register(p, TypB, newB, scope, "")
        \/ Resolve(p, TypA)
        \/ Resolve(p, TypB)
        \/ Register_commit(p)
        \/ ResolveStep(p)

SpecDeps == Init /\ [][NextDeps]_vars

\* Tagged registrations, one goroutine: *di.A under the tags "x" and "y" only,
\* and *di.B whose constructor takes a *di.A.
NextTags ==
    \E p \in {1} :
        \/ \E tag \in {"x", "y"} : Register(p, TypA, newA, Singleton, tag)
        \/ Register(p, TypB, newB, Singleton, "")
        \/ Resolve(p, TypA)
        \/ Resolve(p, TypB)
        \/ \E tag \in {"x", "y"} : ResolveWithTag(p, TypA, tag)
        \/ Register_commit(p)
        \/ ResolveStep(p)

SpecTags == Init /\ [][NextTags]_vars

\* A cycle: *di.C built from *di.D and *di.D built from *di.C, resolved by
\* concurrent goroutines.  No constructor is ever called.
NextCycle ==
    \E p \in Procs :
        \/ Register(p, TypC, newC, Singleton, "")
        \/ Register(p, TypD, newD, Singleton, "")
        \/ Resolve(p, TypC)
        \/ Resolve(p, TypD)
        \/ Register_commit(p)
        \/ resolveType_guard(p)
        \/ resolveType_lookup(p)
        \/ resolveType_load(p)
        \/ resolveType_mutex(p)
        \/ resolveType_lock(p)
        \/ resolveType_recheck(p)
        \/ createInstance_param(p)
        \/ resolveType_unlock(p)
        \/ resolveType_unguard(p)

SpecCycle == Init /\ [][NextCycle]_vars

\* Clear between resolutions: one Singleton, registered, resolved, cleared and
\* registered again by concurrent goroutines.
MaxCallsClear == 5

NextClear ==
    \E p \in Procs :
        \/ Register(p, TypA, newA, Singleton, "")
        \/ Resolve(p, TypA)
        \/ Clear(p)
        \/ Register_commit(p)
        \/ PurgeStep(p)
        \/ resolveType_guard(p)
        \/ resolveType_lookup(p)
        \/ resolveType_load(p)
        \/ resolveType_mutex(p)
        \/ resolveType_lock(p)
        \/ resolveType_recheck(p)
        \/ createInstance_call(p)
        \/ resolveType_store(p)
        \/ resolveType_mdelete(p)
        \/ resolveType_unlock(p)
        \/ resolveType_unguard(p)

InitClear == New /\ budget = MaxCallsClear

SpecClear == InitClear /\ [][NextClear]_vars

\* One goroutine and the tags of *di.A: Singletons registered untagged and
\* under "x" and "y", once or twice, resolved alone, by tag and as a slice.
MaxCallsSlice == 5

NextSlice ==
    \E p \in {1} :
        \/ \E tag \in {"", "x", "y"} : Register(p, TypA, newA, Singleton, tag)
        \/ Resolve(p, TypA)
        \/ \E tag \in {"x", "y"} : ResolveWithTag(p, TypA, tag)
        \/ \E elem \in {TypA, TypB} : ResolveSlice(p, elem)
        \/ Register_commit(p)
        \/ SliceStep(p)
        \/ resolveType_guard(p)
        \/ resolveType_lookup(p)
        \/ resolveType_load(p)
        \/ resolveType_mutex(p)
        \/ resolveType_lock(p)
        \/ resolveType_recheck(p)
        \/ createInstance_call(p)
        \/ resolveType_store(p)
        \/ resolveType_mdelete(p)
        \/ resolveType_unlock(p)
        \/ resolveType_unguard(p)

InitSlice == New /\ budget = MaxCallsSlice

SpecSlice == InitSlice /\ [][NextSlice]_vars

\* Registration-time validation, one goroutine: Provide of an implementation
\* for the interface I and for the concrete *di.A, and Register of
\* constructors that take a string, with string registered untagged, under a
\* tag, or not at all.
NextValidate ==
    \E p \in {1} :
        \/ Provide(p, TypI, Impl1, "")
        \/ Provide(p, TypI, Impl2, "x")
        \/ Provide(p, TypA, Impl1, "")
        \/ \E tag \in {"", "x"} : Register(p, TypString, newS, Singleton, tag)
        \/ Register(p, TypX, newX, Singleton, "")
        \/ Register(p, TypB, newB, Singleton, "")
        \/ Resolve(p, TypI)
        \/ ResolveWithTag(p, TypI, "x")
        \/ Register_param(p)
        \/ Register_commit(p)
        \/ resolveType_guard(p)
        \/ resolveType_lookup(p)
        \/ resolveType_load(p)
        \/ resolveType_mutex(p)
        \/ resolveType_lock(p)
        \/ resolveType_recheck(p)
        \/ createInstance_call(p)
        \/ resolveType_store(p)
        \/ resolveType_mdelete(p)
        \/ resolveType_unlock(p)
        \/ resolveType_unguard(p)

SpecValidate == Init /\ [][NextValidate]_vars

\* Failing constructions, concurrent goroutines, no teardown: *di.A built by a
\* constructor that may return an error, and *di.B built by newB from *di.A.
NextFail ==
    \E p \in Procs :
        \/ \E scope \in Scopes : Register(p, TypA, newAErr, scope, "")
        \/ Register(p, TypB, newB, Singleton, "")
        \/ Resolve(p, TypA)
        \/ Resolve(p, TypB)
        \/ Register_commit(p)
        \/ ResolveStep(p)
        \/ createInstance_error(p)

SpecFail == Init /\ [][NextFail]_vars

\* The cycle of *di.C and *di.D with Clear: the two registered, resolved,
\* cleared and registered again by concurrent goroutines.  No constructor is
\* ever called.  Every goroutine that can take a step eventually takes one.
StepRecycle(p) ==
    \/ Register(p, TypC, newC, Singleton, "")
    \/ Register(p, TypD, newD, Singleton, "")
    \/ Resolve(p, TypC)
    \/ Clear(p)
    \/ Register_commit(p)
    \/ PurgeStep(p)
    \/ resolveType_guard(p)
    \/ resolveType_lookup(p)
    \/ resolveType_load(p)
    \/ resolveType_mutex(p)
    \/ resolveType_lock(p)
    \/ resolveType_recheck(p)
    \/ createInstance_param(p)
    \/ resolveType_unlock(p)
    \/ resolveType_unguard(p)

NextRecycle == \E p \in Procs : StepRecycle(p)

SpecRecycle ==
    InitClear /\ [][NextRecycle]_vars /\ \A p \in Procs : WF_vars(StepRecycle(p))

\* Clear and what follows it, one goroutine: *di.A registered untagged and
\* under "x", resolved, asked for with IsRegistered, cleared and registered
\* again; *di.B is never registered.
NextReset ==
    \E p \in {1} :
        \/ \E tag \in {"", "x"} : Register(p, TypA, newA, Singleton, tag)
        \/ Resolve(p, TypA)
        \/ Resolve(p, TypB)
        \/ \E tag \in {"", "x"} : IsRegistered(p, TypA, tag)
        \/ Clear(p)
        \/ Register_commit(p)
        \/ PurgeStep(p)
        \/ resolveType_guard(p)
        \/ resolveType_lookup(p)
        \/ resolveType_load(p)
        \/ resolveType_mutex(p)
        \/ resolveType_lock(p)
        \/ resolveType_recheck(p)
        \/ createInstance_call(p)
        \/ resolveType_store(p)
        \/ resolveType_mdelete(p)
        \/ resolveType_unlock(p)
        \/ resolveType_unguard(p)

SpecReset == InitClear /\ [][NextReset]_vars

\* Dependency graphs, one goroutine: Singletons whose constructors make a
\* diamond (E from A and B, B from A), a chain (C from D, D from A), a
\* self-cycle (C from C) and cycles of length two and three (C from D, D from
\* C or from E, E from C).
NextGraph ==
    \E p \in {1} :
        \/ Register(p, TypA, newA, Singleton, "")
        \/ Register(p, TypB, newB, Singleton, "")
        \/ \E ctor \in {newC, newCSelf} : Register(p, TypC, ctor, Singleton, "")
        \/ \E ctor \in {newD, newDA, newDE} : Register(p, TypD, ctor, Singleton, "")
        \/ \E ctor \in {newE, newEC} : Register(p, TypE, ctor, Singleton, "")
        \/ \E t \in {TypC, TypD, TypE} : Resolve(p, t)
        \/ Register_commit(p)
        \/ ResolveStep(p)

SpecGraph == Init /\ [][NextGraph]_vars

\* Registration in every outcome, by concurrent goroutines: constructors that
\* pass and that fail each check of Register, a typed factory, a primitive
\* parameter with and without its registration, and Close; *di.A is resolved
\* so that the cache and the guard set have entries.
NextRegister ==
    \E p \in Procs :
        \/ \E tag \in {"", "x"} : Register(p, TypA, newA, Singleton, tag)
        \/ \E ctor \in {NoCtor, newVoid, newB, newAStr} : Register(p, TypA, ctor, Singleton, "")
        \/ Register(p, TypString, newS, Transient, "")
        \/ Register(p, TypX, newX, Singleton, "")
        \/ RegisterFactory(p, TypA, newA, Singleton, "x")
        \/ Resolve(p, TypA)
        \/ Close(p)
        \/ Register_param(p)
        \/ Register_commit(p)
        \/ PurgeStep(p)
        \/ resolveType_guard(p)
        \/ resolveType_lookup(p)
        \/ resolveType_load(p)
        \/ resolveType_mutex(p)
        \/ resolveType_lock(p)
        \/ resolveType_recheck(p)
        \/ createInstance_call(p)
        \/ resolveType_store(p)
        \/ resolveType_mdelete(p)
        \/ resolveType_unlock(p)
        \/ resolveType_unguard(p)

SpecRegister == Init /\ [][NextRegister]_vars

\* Two types of one name, one goroutine: *di.A of this package and the *A
\* of another package named di, each registered once as a Singleton, the
\* second built from nothing or from the first.
NextAlias ==
    \E p \in {1} :
        \/ Register(p, TypA, newA, Singleton, "")
        \/ \E ctor \in {newA2, newA2A} : Register(p, TypA2, ctor, Singleton, "")
        \/ \E t \in {TypA, TypA2} : Resolve(p, t)
        \/ Register_commit(p)
        \/ ResolveStep(p)

SpecAlias == Init /\ [][NextAlias]_vars

\* Failure after a dependency was built, one goroutine: Singletons *di.A,
\* *di.B built from *di.A by a constructor that may return an error, and
\* *di.E built from *di.A and *di.B; B and E are resolved again and again.
NextRetry ==
    \E p \in {1} :
        \/ Register(p, TypA, newA, Singleton, "")
        \/ Register(p, TypB, newBErr, Singleton, "")
        \/ Register(p, TypE, newE, Singleton, "")
        \/ \E t \in {TypB, TypE} : Resolve(p, t)
        \/ Register_commit(p)
        \/ ResolveStep(p)
        \/ createInstance_error(p)

SpecRetry == InitClear /\ [][NextRetry]_vars

\* The application's start, one goroutine: InitContainer once, with and
\* without a failing factory, and the getters of the user service and the
\* user repository.
NextBoot ==
    \E p \in {1} :
        \/ \E failing \in BOOLEAN : InitContainer(p, failing)
        \/ GetUserService(p)
        \/ GetUserRepository(p)
        \/ ResolveStep(p)

SpecBoot == InitClear /\ [][NextBoot]_vars

\* ------------------------------------------------------------------ claims
ResolveOps == {"Resolve", "ResolveWithTag"}

\* the recipe of a registration takes no parameter, so it cannot fail
Leaf(reg) == Len(In(Recipe(reg))) = 0

\* result r is of a Resolve of a key that has had exactly one registration, a
\* Singleton, from before the call began until now, with no Clear or Close
OnceSingleton(r) ==
    /\ r.op \in ResolveOps
    /\ ~purged
    /\ Has(r.regsAt, r.key) /\ r.regsAt[r.key] = 1
    /\ RegCount(r.key) = 1
    /\ registrations[r.key][1].scope = Singleton

\* C1: every Resolve of a key registered once as a Singleton whose constructor
\* succeeds returns without error, all of them the identical instance, and
\* the constructor has run exactly once, whatever the interleaving of callers
C1_SingletonSameInstance ==
    \A p \in Procs :
        (OnceSingleton(res[p]) /\ Leaf(registrations[res[p].key][1])) =>
            /\ res[p].err = NoErr
            /\ Has(ctorRuns, String(res[p].key)) /\ ctorRuns[String(res[p].key)] = 1
            /\ \A q \in Procs :
                  (OnceSingleton(res[q]) /\ res[q].key = res[p].key) => res[q].val = res[p].val

\* C2: before the first Clear or Close, the recipe of a Singleton key has run
\* to successful completion at most once, however many callers resolve the key,
\* directly or as the parameter of another constructor
C2_AtMostOneConstruction ==
    \A k \in DOMAIN registrations :
        (~purged /\ registrations[k][1].scope = Singleton /\ Has(ctorRuns, String(k)))
            => ctorRuns[String(k)] <= 1

\* *di.A was built once as the parameter of newB, and a later Resolve of *di.A
\* by itself returned that instance from the cache
C2_Witness ==
    /\ ~purged
    /\ Has(singletons, String(KeyB))
    /\ Has(ctorRuns, String(KeyA)) /\ ctorRuns[String(KeyA)] = 1
    /\ \E p \in Procs :
          /\ res[p].op = "Resolve" /\ res[p].key = KeyA
          /\ res[p].err = NoErr /\ res[p].built = 0
          /\ res[p].reg.scope = Singleton

\* C3: a resolveType invocation is rejected as circular only when its key is
\* held by an enclosing invocation of the same call; a key held by another
\* goroutine's call never makes it fail
C3_CircularOnlyInOwnTree ==
    \A p \in Procs :
        (/\ Running(p, "resolveType", "guard")
         /\ RegCount(Top(p).key) = 1
         /\ String(Top(p).key) \in resolving)
            => String(Top(p).key) \in Enclosing(p)

KeyAx == typeKey(TypA, "x")
KeyAy == typeKey(TypA, "y")

\* C4: with *di.A registered under "x" and "y" only, the untagged Resolve
\* fails with the ambiguity error, and ResolveWithTag of a tag registered once
\* returns the instance built by the registration of that tag
C4_UntaggedAmbiguous ==
    \A p \in Procs :
        /\ (/\ res[p].op = "Resolve" /\ res[p].key = KeyA
            /\ {KeyAx, KeyAy} \subseteq DOMAIN res[p].regsAt
            /\ KeyA \notin DOMAIN res[p].regsAt)
               => res[p].err = ErrAmbiguous
        /\ (/\ res[p].op = "ResolveWithTag"
            /\ {KeyAx, KeyAy} \subseteq DOMAIN res[p].regsAt
            /\ res[p].regsAt[res[p].key] = 1 /\ RegCount(res[p].key) = 1)
               => (res[p].err = NoErr /\ res[p].val.key = String(res[p].key))

Quiescent == \A p \in Procs : stack[p] = <<>>

\* C5: with *di.C and *di.D each registered once, each needing the other,
\* every Resolve of either fails with the circular-dependency error, neither
\* is ever in the singleton cache, and when no resolution is in progress the
\* guard set is empty and no creation mutex is held
C5_CycleFailsCleanly ==
    /\ \A p \in Procs :
          (/\ res[p].op = "Resolve" /\ res[p].key \in {KeyC, KeyD}
           /\ {KeyC, KeyD} \subseteq DOMAIN res[p].regsAt
           /\ RegCount(KeyC) = 1 /\ RegCount(KeyD) = 1)
              => res[p].err = ErrCircular
    /\ ~Has(singletons, String(KeyC)) /\ ~Has(singletons, String(KeyD))
    /\ Quiescent => (resolving = {} /\ \A m \in DOMAIN mutexes : mutexes[m] = 0)

\* Resolve of *di.C and Resolve of *di.D have both failed as circular, after
\* an attempt that went as far as the creation mutex of *di.C
C5_Witness ==
    /\ Quiescent
    /\ Has(singletonsMutex, String(KeyC))
    /\ res[1].op = "Resolve" /\ res[1].key = KeyC /\ res[1].err = ErrCircular
    /\ res[2].op = "Resolve" /\ res[2].key = KeyD /\ res[2].err = ErrCircular
    /\ {KeyC, KeyD} \subseteq DOMAIN res[1].regsAt
    /\ {KeyC, KeyD} \subseteq DOMAIN res[2].regsAt

ClosedOps == {"Register", "RegisterFactory", "Resolve", "ResolveWithTag", "ResolveSlice"}

\* C6: once Close has returned the closed flag stays set, and every Register,
\* RegisterFactory, Resolve, ResolveWithTag and slice Resolve that begins
\* afterwards returns the closed error at once
C6_ClosedAfterClose ==
    /\ closeReturned => closed = 1
    /\ \A p \in Procs :
          /\ (res[p].op \in ClosedOps /\ res[p].afterClose) => res[p].err = ErrClosed
          /\ call[p].op \in ClosedOps => ~call[p].afterClose

\* a Resolve of *di.A succeeded before the Close, and a Resolve of the same
\* key that began after the Close returned the closed error
C6_Witness ==
    \E p, q \in Procs :
        /\ res[q].op = "Resolve" /\ res[q].key = KeyA
        /\ ~res[q].afterClose /\ res[q].err = NoErr
        /\ res[p].op = "Resolve" /\ res[p].key = KeyA
        /\ res[p].afterClose /\ res[p].err = ErrClosed

\* C7: once Close has returned, the registration map is empty, whatever
\* Register and RegisterFactory calls raced with it
C7_NoRegistrationAfterClose ==
    closeReturned => DOMAIN registrations = {}

\* a Register that passed its first closed check lost the race with Close and
\* returned the closed error from its critical section
C7_Witness ==
    /\ closeReturned
    /\ DOMAIN registrations = {}
    /\ \E p \in Procs :
          /\ res[p].op \in {"Register", "RegisterFactory"}
          /\ res[p].at = "lock" /\ res[p].err = ErrClosed

\* C8: once Close has returned, the singleton cache, the guard set and the
\* lock map are empty
C8_CachesEmptyAfterClose ==
    closeReturned =>
        (DOMAIN singletons = {} /\ resolving = {} /\ DOMAIN singletonsMutex = {})

\* C9: a Resolve that finds its key registered Transient runs the recipe
\* exactly once and returns the instance that run built, which no other call
\* returned; it never goes through the singleton cache, and a key whose
\* registration is Transient has no cache entry
C9_TransientFresh ==
    /\ \A p \in Procs :
          (res[p].op \in ResolveOps /\ res[p].err = NoErr /\ res[p].reg.scope = Transient) =>
              /\ res[p].built = 1
              /\ res[p].fresh
              /\ \A q \in Procs \ {p} :
                    (res[q].op \in ResolveOps /\ res[q].err = NoErr) => res[q].val # res[p].val
    /\ \A p \in Procs : \A j \in DOMAIN stack[p] :
          (stack[p][j].fn = "resolveType" /\ stack[p][j].reg.scope = Transient) =>
              stack[p][j].pc \in {"create", "unguard"}
    /\ \A k \in DOMAIN registrations :
          (~purged /\ registrations[k][1].scope = Transient) => ~Has(singletons, String(k))

\* two goroutines have each resolved the Transient *di.A and hold two objects
C9_Witness ==
    /\ \A p \in {1, 2} :
          /\ res[p].op = "Resolve" /\ res[p].key = KeyA
          /\ res[p].err = NoErr /\ res[p].reg.scope = Transient
    /\ res[1].val # res[2].val

\* C10: an entry of the singleton cache keeps its instance in every step that
\* leaves the key in the cache: nothing overwrites it with another instance
C10_CacheEntryStable ==
    [][\A k \in DOMAIN singletons :
          Has(singletons', k) => singletons'[k] = singletons[k]]_vars

\* C11: a Resolve or ResolveWithTag of a key that has two registrations fails
\* with the ambiguity error, returns no value and constructs nothing, also
\* when the singleton of the key is already in the cache
C11_AmbiguousBeforeCache ==
    \A p \in Procs :
        (res[p].op \in ResolveOps /\ RegCount(res[p].key) >= 2) =>
            /\ res[p].err = ErrAmbiguous
            /\ res[p].val = Nil
            /\ res[p].built = 0 /\ res[p].made = 0

\* *di.A was resolved and cached, registered a second time, and the Resolve
\* after that failed as ambiguous
C11_Witness ==
    /\ Has(singletons, String(KeyA))
    /\ RegCount(KeyA) = 2
    /\ res[1].op = "Resolve" /\ res[1].key = KeyA /\ res[1].err = ErrAmbiguous

\* the keys of type t that have a registration list
KeysOf(t) == {k \in DOMAIN registrations : k.typ = t}

\* the elements of a sequence
Range(seq) == {seq[i] : i \in DOMAIN seq}

\* C14: with every tag of *di.A registered once, as a Singleton, the slice
\* Resolve returns one instance per tag, pairwise distinct, each the cached
\* singleton of its tag, which is also what ResolveWithTag of that tag returns;
\* however often these calls are repeated each constructor has run once
C14_SliceOnePerTag ==
    \A p \in Procs :
        /\ (/\ res[p].op = "ResolveSlice"
            /\ \A k \in KeysOf(res[p].key.typ) : RegCount(k) = 1) =>
               /\ res[p].err = NoErr
               /\ Len(res[p].vals) = Cardinality(KeysOf(res[p].key.typ))
               /\ \A i, j \in DOMAIN res[p].vals : i # j => res[p].vals[i] # res[p].vals[j]
               /\ \A k \in KeysOf(res[p].key.typ) :
                     /\ Has(singletons, String(k))
                     /\ singletons[String(k)] \in Range(res[p].vals)
                     /\ singletons[String(k)].key = String(k)
                     /\ ctorRuns[String(k)] = 1
        /\ (/\ res[p].op = "ResolveWithTag"
            /\ RegCount(res[p].key) = 1) =>
               /\ res[p].err = NoErr
               /\ res[p].val = singletons[String(res[p].key)]
               /\ ctorRuns[String(res[p].key)] = 1

\* with "x" and "y" registered, a slice Resolve returned two instances without
\* allocating any: both had been built by an earlier call
C14_Witness ==
    /\ KeysOf(TypA) = {KeyAx, KeyAy}
    /\ res[1].op = "ResolveSlice" /\ res[1].err = NoErr
    /\ Len(res[1].vals) = 2
    /\ res[1].made = 0

\* the number of registrations of type t, over all tags
RegsOfType(t) ==
    Cardinality({ki \in KeysOf(t) \X (1..MaxItems) : ki[2] <= RegCount(ki[1])})

\* C15: a slice Resolve succeeds and returns as many elements as there are
\* registrations of the element type, also when two of them share a tag
C15_SliceOnePerRegistration ==
    \A p \in Procs :
        res[p].op = "ResolveSlice" =>
            /\ res[p].err = NoErr
            /\ Len(res[p].vals) = RegsOfType(res[p].key.typ)

KeyI == typeKey(TypI, "")
KeyIx == typeKey(TypI, "x")

\* the implementation the callers pass to Provide for a key of I
ProvidedFor(key) == IF key = KeyI THEN Impl1 ELSE Impl2

KeyString == typeKey(TypString, "")

\* C13: Register of func(s string) *X returns the validation error when
\* string has no untagged registration, whatever is registered for string
\* under a tag, and succeeds when it has one; Register of newB, whose
\* parameter *di.A is not registered and not primitive, succeeds
C13_PrimitiveParamChecked ==
    \A p \in Procs :
        /\ (res[p].op = "Register" /\ res[p].ctor = newX) =>
              /\ res[p].err = ErrPrimitive <=> ~Has(registrations, KeyString)
              /\ res[p].err = NoErr <=> Has(registrations, KeyString)
              /\ res[p].err = ErrPrimitive => ~Has(registrations, res[p].key)
        /\ (res[p].op = "Register" /\ res[p].ctor \in {newB, newS}) => res[p].err = NoErr

\* string is registered under the tag "x" only, and Register of the
\* constructor taking a string was refused
C13_Witness ==
    /\ Has(registrations, typeKey(TypString, "x"))
    /\ ~Has(registrations, KeyString)
    /\ res[1].op = "Register" /\ res[1].ctor = newX /\ res[1].err = ErrPrimitive

\* the resolveType frames of p that have stored their key in the guard set
Guarding(p) ==
    {j \in DOMAIN stack[p] : stack[p][j].fn = "resolveType" /\ stack[p][j].pc # "guard"}

\* C16: when no resolution is in progress the guard set is empty, whether the
\* calls ended in success, not-found, ambiguity, a rejection as circular or a
\* constructor error; and while an invocation runs its entry stays in the
\* set: no invocation that was rejected as circular has removed it
C16_GuardReleased ==
    /\ Quiescent => resolving = {}
    /\ \A p \in Procs : \A j \in Guarding(p) : String(stack[p][j].key) \in resolving

\* at rest after a Resolve of *di.B that failed on the constructor error of
\* its parameter and a Resolve of *di.A that was rejected as circular
C16_Witness ==
    /\ Quiescent
    /\ resolving = {}
    /\ res[1].op = "Resolve" /\ res[1].key = KeyB /\ res[1].err = ErrCtor
    /\ res[2].op = "Resolve" /\ res[2].key = KeyA /\ res[2].err = ErrCircular

\* C17: a Resolve of the Singleton *di.A whose constructor ran returns the
\* constructor's error and no value, or the value and no error; the cache
\* holds only an instance a successful run built; and a Resolve returns
\* without calling the constructor only when a run has succeeded before, with
\* the cached instance: a failure is never cached
C17_CtorErrorNotCached ==
    /\ \A k \in DOMAIN singletons :
          /\ singletons[k] # Nil /\ singletons[k].key = k
          /\ Has(ctorRuns, k)
    /\ \A p \in Procs :
          (/\ res[p].op = "Resolve" /\ res[p].key = KeyA
           /\ res[p].reg.constructor = newAErr /\ res[p].reg.scope = Singleton) =>
              /\ res[p].built = 1 =>
                    \/ res[p].err = ErrCtor /\ res[p].val = Nil
                    \/ res[p].err = NoErr /\ res[p].val # Nil
              /\ res[p].built = 0 =>
                    /\ res[p].err = NoErr
                    /\ Has(ctorRuns, String(KeyA))
                    /\ RegCount(KeyA) = 1 => res[p].val = singletons[String(KeyA)]

\* one Resolve of the Singleton *di.A returned the constructor's error, and
\* another one called the constructor itself and got an instance
C17_Witness ==
    /\ RegCount(KeyA) = 1
    /\ \A p \in {1, 2} :
          /\ res[p].op = "Resolve" /\ res[p].key = KeyA
          /\ res[p].reg.scope = Singleton /\ res[p].built = 1
    /\ res[1].err = ErrCtor
    /\ res[2].err = NoErr
    /\ Has(singletons, String(KeyA))

\* C20: when no resolution is in progress the lock map has no entry, whether
\* the resolutions before ended in success or in an error
C20_NoLockEntryAtRest ==
    Quiescent => DOMAIN singletonsMutex = {}

\* instance v is the result of a completed run of the recipe of key string k
Constructed(v, k) ==
    /\ v # Nil /\ v.key = k
    /\ v.id >= 1 /\ v.id < nextInst
    /\ Has(ctorRuns, k)

\* C18: every instance in the singleton cache, and every instance a Resolve
\* of a Singleton key returned, was built by a run of the key's recipe that
\* had completed, after the parameters of the constructor had been resolved
\* (*di.B is never there before a *di.A was built); and no key is in the
\* cache while an invocation is still constructing it
C18_OnlyCompleteSingletons ==
    /\ \A k \in DOMAIN singletons : Constructed(singletons[k], k)
    /\ Has(singletons, String(KeyB)) => Has(ctorRuns, String(KeyA))
    /\ \A p \in Procs : \A j \in DOMAIN stack[p] :
          (stack[p][j].fn = "resolveType" /\ stack[p][j].pc = "create"
             /\ stack[p][j].reg.scope = Singleton) =>
                ~Has(singletons, String(stack[p][j].key))
    /\ \A p \in Procs :
          (res[p].op = "Resolve" /\ res[p].err = NoErr /\ res[p].reg.scope = Singleton) =>
              /\ Constructed(res[p].val, String(res[p].key))
              /\ res[p].key = KeyB => Has(ctorRuns, String(KeyA))

\* two goroutines hold the same *di.B: one built it, the other one found it
\* in the cache
C18_Witness ==
    /\ \A p \in {1, 2} :
          /\ res[p].op = "Resolve" /\ res[p].key = KeyB
          /\ res[p].err = NoErr /\ res[p].reg.scope = Singleton
    /\ res[1].val = res[2].val
    /\ res[1].built = 1 /\ res[2].built = 0

\* C19: every call a goroutine has begun eventually returns
C19_EveryCallReturns ==
    \A p \in Procs : (call[p] # Idle) ~> (call[p] = Idle)

\* C21: when Clear has returned, the registration map, the singleton cache,
\* the guard set and the lock map are empty and the container is open;
\* on an empty registration map IsRegistered is false and Resolve returns
\* not-found; and a Resolve that succeeds returns what the cache holds, which
\* after a Clear is an instance stored after it
C21_ClearEmptiesAll ==
    \A p \in Procs :
        /\ res[p].op = "Clear" =>
              /\ DOMAIN registrations = {} /\ DOMAIN singletons = {}
              /\ resolving = {} /\ DOMAIN singletonsMutex = {}
              /\ closed = 0 /\ mu = 0
        /\ (res[p].op = "IsRegistered" /\ DOMAIN registrations = {}) => ~res[p].found
        /\ (res[p].op \in ResolveOps /\ DOMAIN res[p].regsAt = {}) =>
              (res[p].err = ErrNotFound /\ res[p].val = Nil)
        /\ (/\ call[p] = Idle /\ res[p].op \in ResolveOps
            /\ res[p].key \in DOMAIN res[p].regsAt /\ res[p].regsAt[res[p].key] = 1) =>
              /\ res[p].err = NoErr
              /\ res[p].val = singletons[String(res[p].key)]
              /\ res[p].built = 1 => res[p].fresh

\* *di.A was resolved, the container cleared, *di.A registered again, and its
\* Resolve built a second instance
C21_Witness ==
    /\ purged
    /\ res[1].op = "Resolve" /\ res[1].key = KeyA /\ res[1].err = NoErr
    /\ res[1].built = 1 /\ res[1].val.id = 2
    /\ ctorRuns[String(KeyA)] = 2

\* C22: a call of IsRegistered changes nothing in the container and returns
\* whether the list of exactly its key has a registration
C22_IsRegisteredReadsOnly ==
    [][\A p \in Procs :
          (/\ call[p] = Idle /\ call'[p] = Idle /\ budget' < budget
           /\ res'[p].op = "IsRegistered") =>
              /\ UNCHANGED container
              /\ res'[p].found = (RegCount(res'[p].key) > 0)]_vars

\* IsRegistered without a tag returned false with *di.A registered under "x"
C22_Witness ==
    /\ RegCount(KeyAx) = 1 /\ RegCount(KeyA) = 0
    /\ res[1].op = "IsRegistered" /\ res[1].key = KeyA /\ ~res[1].found

\* p is in a Resolve of a key that has no registration
Unregistered(p) ==
    /\ call[p].op \in ResolveOps
    /\ RegCount(typeKey(call[p].typ, call[p].tag)) = 0

\* C23: every step of a Resolve of a key that has no registration leaves the
\* registrations, the singleton cache, the lock map and the closed flag as
\* they are, and the step that returns returns not-found with the guard set
\* empty again
C23_NotFoundLeavesNoTrace ==
    [][\A p \in Procs :
          Unregistered(p) =>
              /\ UNCHANGED <<closed, mu, registrations, singletons, singletonsMutex,
                             mutexes, nextInst>>
              /\ call'[p] = Idle =>
                    (res'[p].err = ErrNotFound /\ res'[p].val = Nil /\ resolving' = {})]_vars

\* Resolve of the unregistered *di.B returned not-found while *di.A sat in
\* the cache
C23_Witness ==
    /\ res[1].op = "Resolve" /\ res[1].key = KeyB /\ res[1].err = ErrNotFound
    /\ Has(singletons, String(KeyA))

\* the keys of the parameters of the one registration of key k
DepsOf(k) ==
    IF RegCount(k) = 1
    THEN LET ctor == registrations[k][1].constructor
         IN {typeKey(In(ctor)[i], "") : i \in 1..Len(In(ctor))}
    ELSE {}

\* the keys reached from the keys S along at most n more parameter edges
RECURSIVE ReachFrom(_, _)
ReachFrom(S, n) ==
    IF n = 0 THEN S ELSE ReachFrom(S \cup UNION {DepsOf(k) : k \in S}, n - 1)

\* no path without a repeated key is longer than the number of types
GraphDepth ==
    Cardinality({TypA, TypB, TypC, TypD, TypE, TypA2, TypDB, TypEmail, TypJWT,
                 TypPWReset, TypStorage, TypUserRepo, TypUserSvc})

Reachable(k) == ReachFrom({k}, GraphDepth)

\* the parameter graph reachable from k has a cycle
Cyclic(k) == \E j \in Reachable(k) : j \in ReachFrom(DepsOf(j), GraphDepth)

\* C24: with one caller and every key reachable from T registered exactly
\* once, Resolve(T) fails as circular exactly when the parameter graph
\* reachable from T has a cycle, and otherwise succeeds with every reachable
\* Singleton constructed once
C24_CircularIffCycle ==
    \A p \in Procs :
        (/\ call[p] = Idle /\ res[p].op = "Resolve" /\ res[p].regsAt = RegsAt
         /\ \A k \in Reachable(res[p].key) : RegCount(k) = 1) =>
            /\ (res[p].err = ErrCircular) <=> Cyclic(res[p].key)
            /\ ~Cyclic(res[p].key) =>
                  /\ res[p].err = NoErr
                  /\ \A k \in Reachable(res[p].key) :
                        /\ Has(ctorRuns, String(k)) /\ ctorRuns[String(k)] = 1
                        /\ Has(singletons, String(k))

\* the diamond was resolved: E from A and from B, B from A, three objects
C24_Witness ==
    /\ res[1].op = "Resolve" /\ res[1].key = typeKey(TypE, "") /\ res[1].err = NoErr
    /\ res[1].reg.constructor = newE /\ res[1].made = 3
    /\ ctorRuns[String(KeyA)] = 1

\* the public calls Register and RegisterFactory
RegisterCalls == {"Register", "RegisterFactory"}

\* the list of key, empty when the map has none
ListOf(regs, key) == IF key \in DOMAIN regs THEN regs[key] ELSE <<>>

\* C25: the step in which Register or RegisterFactory returns without error
\* appends the call's registration to the list of its key and changes no
\* other list and nothing else of the container; every other step of such a
\* call, the return of an error among them, leaves the container unchanged
C25_RegisterAppendsOne ==
    [][\A p \in Procs :
          LET c == call[p]
              key == typeKey(c.typ, c.tag)
              succeeds == c.op \in RegisterCalls /\ call'[p] = Idle /\ res'[p].err = NoErr
          IN /\ succeeds =>
                  /\ DOMAIN registrations' = DOMAIN registrations \cup {key}
                  /\ \A k \in DOMAIN registrations : k # key => registrations'[k] = registrations[k]
                  /\ registrations'[key] =
                        Append(ListOf(registrations, key),
                               [scope |-> c.scope, tag |-> c.tag, constructor |-> c.constructor,
                                directFactory |-> c.directFactory])
                  /\ UNCHANGED <<closed, mu, singletons, singletonsMutex, resolving, mutexes>>
             /\ (/\ ~succeeds /\ call'[p] # c
                 /\ c.op \in RegisterCalls \/ call'[p].op \in RegisterCalls) =>
                  UNCHANGED container
             /\ (/\ budget' < budget /\ call' = call
                 /\ res'[p].op \in RegisterCalls /\ res'[p].err # NoErr
                 /\ \A q \in Procs \ {p} : res'[q] = res[q]) =>
                  UNCHANGED container]_vars

\* a second registration of *di.A was appended while its first one's
\* singleton was cached, and Register has returned each of its errors
C25_Witness ==
    /\ RegCount(KeyA) = 2 /\ Has(singletons, String(KeyA))
    /\ res[1].op = "Register" /\ res[1].err = NoErr /\ res[1].key = KeyA
    /\ res[2].op = "Register" /\ res[2].err = ErrPrimitive

KeyA2 == typeKey(TypA2, "")

\* C26: distinct keys share no cache, guard or lock entry: a Resolve that
\* succeeds returns an object of the type of its own key, built under its own
\* key, and with every reachable key registered once a Resolve fails as
\* circular only when the parameter graph of its key has a cycle
C26_KeysShareNoEntry ==
    \A p \in Procs :
        (call[p] = Idle /\ res[p].op = "Resolve") =>
            /\ res[p].err = NoErr => (res[p].val.typ = res[p].key.typ /\ ~res[p].panic)
            /\ (/\ res[p].err = ErrCircular /\ res[p].regsAt = RegsAt
                /\ \A k \in Reachable(res[p].key) : RegCount(k) = 1) => Cyclic(res[p].key)

\* C27: parameters are resolved under the empty tag: Register of B, whose
\* constructor takes *A, succeeds whatever is registered for *A, and with
\* *A registered under tags only every Resolve of B (registered once) returns not-found,
\* constructs nothing and leaves B out of the cache
C27_ParamsUntagged ==
    \A p \in Procs :
        /\ (res[p].op = "Register" /\ res[p].key = KeyB) => res[p].err = NoErr
        /\ (/\ res[p].op = "Resolve" /\ res[p].key = KeyB
            /\ KeyB \in DOMAIN res[p].regsAt /\ res[p].regsAt[KeyB] = 1
            /\ KeyA \notin DOMAIN res[p].regsAt) =>
              /\ res[p].err = ErrNotFound /\ res[p].val = Nil
              /\ res[p].made = 0 /\ res[p].built = 0
        /\ RegCount(KeyA) = 0 => ~Has(singletons, String(KeyB))

\* Resolve of B returned not-found with *di.A registered, and even cached,
\* under the tag "x"
C27_Witness ==
    /\ res[1].op = "Resolve" /\ res[1].key = KeyB /\ res[1].err = ErrNotFound
    /\ KeyAx \in DOMAIN res[1].regsAt
    /\ Has(singletons, String(KeyAx))

KeyE == typeKey(TypE, "")

\* C28: when a Resolve has failed on a parameter that is not registered or
\* on the error of a constructor, every Singleton that a constructor built
\* is in the cache and was built once, in this call or in an earlier one
C28_FailureKeepsDependencies ==
    \A p \in Procs :
        (/\ call[p] = Idle /\ res[p].op = "Resolve"
         /\ res[p].err \in {ErrNotFound, ErrCtor}) =>
            \A k \in DOMAIN ctorRuns : Has(singletons, k) /\ ctorRuns[k] = 1

\* Resolve of E failed on the error of B's constructor, allocating nothing,
\* with the *di.A of an earlier failed attempt in the cache
C28_Witness ==
    /\ res[1].op = "Resolve" /\ res[1].key = KeyE /\ res[1].err = ErrCtor
    /\ res[1].made = 0
    /\ Has(singletons, String(KeyA)) /\ ctorRuns[String(KeyA)] = 1
    /\ ~Has(singletons, String(KeyB))

\* the keys of the element type t that a call found registered
KeysAt(r) == {k \in DOMAIN r.regsAt : k.typ = r.key.typ}

\* C29: Resolve of a slice whose element type has no key registered returns
\* the empty slice and no error; whenever it returns an error it returns no
\* element, and it returns the error when one of the keys cannot be resolved
C29_SliceAllOrNothing ==
    \A p \in Procs :
        res[p].op = "ResolveSlice" =>
            /\ KeysAt(res[p]) = {} => (res[p].err = NoErr /\ res[p].vals = <<>>)
            /\ res[p].err # NoErr => (res[p].vals = <<>> /\ res[p].val = Nil)
            /\ (\E k \in KeysAt(res[p]) : res[p].regsAt[k] > 1) => res[p].err = ErrAmbiguous
            /\ res[p].err = NoErr => Len(res[p].vals) = Cardinality(KeysAt(res[p]))

\* a slice Resolve failed on an ambiguous key after it had built the element
\* of another key
C29_Witness ==
    /\ res[1].op = "ResolveSlice" /\ res[1].err = ErrAmbiguous
    /\ res[1].made = 1 /\ res[1].vals = <<>>

\* the keys InitContainer registers
AppKeys ==
    {typeKey(t, "") : t \in {TypDB, TypEmail, TypJWT, TypPWReset, TypStorage,
                             TypUserRepo, TypUserSvc}}

KeyUserRepo == typeKey(TypUserRepo, "")
KeyUserSvc == typeKey(TypUserSvc, "")

\* C30: DIContainer is assigned exactly when InitContainer has returned
\* without error; its registrations are then one untagged Singleton for each
\* of the seven keys, every parameter of a constructor is one of these keys,
\* and the graph has no cycle; the getters called on it return without panic
\* the instance in the singleton cache, and every constructor runs once
C30_InitContainerGraph ==
    /\ DIContainer =>
          /\ DOMAIN registrations = AppKeys
          /\ \A k \in AppKeys : /\ RegCount(k) = 1
                                /\ registrations[k][1].scope = Singleton
                                /\ DepsOf(k) \subseteq AppKeys
                                /\ ~Cyclic(k)
    /\ ~DIContainer => (registrations = EmptyMap /\ singletons = EmptyMap)
    /\ \A p \in Procs :
          /\ res[p].op = "InitContainer" => (res[p].err = NoErr <=> DIContainer)
          /\ (res[p].op = "MustResolve" /\ res[p].err # ErrNilContainer) =>
                /\ DIContainer
                /\ res[p].err = NoErr /\ ~res[p].panic
                /\ res[p].val # Nil /\ res[p].val = singletons[String(res[p].key)]
    /\ \A k \in DOMAIN ctorRuns : ctorRuns[k] = 1

\* GetUserRepository returned the repository that an earlier GetUserService
\* had built, after GetUserService had returned twice
C30_Witness ==
    /\ DIContainer /\ budget = 1
    /\ res[1].op = "MustResolve" /\ res[1].key = KeyUserRepo /\ res[1].err = NoErr
    /\ res[1].built = 0 /\ res[1].made = 0
    /\ Has(singletons, String(KeyUserSvc))
    /\ singletons[String(typeKey(TypDB, ""))] = gdb
====
